---- MODULE Spec2Model ----
(***************************************************************************)
(* A model of the I18n class of nitreojs/i18n (src/unnamed/part_001, the   *)
(* variant with throwOnFailure, parser and extensions).                    *)
(*                                                                         *)
(* JavaScript strings are sequences of one-character strings, so that      *)
(* split('.'), includes('.'), string indexing and the template renderer    *)
(* are computed and not assumed.  JavaScript values are tagged records.    *)
(***************************************************************************)
EXTENDS Integers, Sequences, FiniteSets, TLC

VARIABLES
  options,       \* this.options: the configuration bag
  dictionaries,  \* this.dictionaries: undefined | locale -> dictionary
  dictionary,    \* this.dictionary: undefined | the current dictionary
  languages,     \* this.languages: string[]
  fs,            \* the locale directories the content loader reads
  last           \* the last call made on the instance and its outcome

vars == <<options, dictionaries, dictionary, languages, fs, last>>

----------------------------------------------------------------------------
(* JavaScript values *)

Undefined == [t |-> "undefined"]
Str(s) == [t |-> "string", s |-> s]
Num(n) == [t |-> "number", n |-> n]
Bool(b) == [t |-> "boolean", b |-> b]
Obj(f) == [t |-> "object", f |-> f]
Arr(a) == [t |-> "array", a |-> a]
Err(m) == [t |-> "error", m |-> m]

\* how a call ends: it returns a value or throws one
Return(v) == [k |-> "return", v |-> v]
Throw(m) == [k |-> "throw", v |-> Err(m)]

\* a ?? b
Coalesce(a, b) == IF a.t = "undefined" THEN b ELSE a

\* a === b
StrictEq(a, b) ==
  /\ a.t = b.t
  /\ CASE a.t = "string" -> a.s = b.s
       [] a.t = "number" -> a.n = b.n
       [] a.t = "boolean" -> a.b = b.b
       [] a.t = "undefined" -> TRUE
       [] OTHER -> a = b

TypeofString(v) == v.t = "string"

\* an object literal given as a sequence of <<key, value>> pairs (a later pair
\* wins, as a later property of an object literal does)
MapOf(pairs) ==
  LET keys == {pairs[i][1] : i \in 1..Len(pairs)}
      lastOf(k) == CHOOSE i \in 1..Len(pairs) :
                     /\ pairs[i][1] = k
                     /\ \A j \in (i + 1)..Len(pairs) : pairs[j][1] # k
  IN  [k \in keys |-> pairs[lastOf(k)][2]]

----------------------------------------------------------------------------
(* Strings *)

Digits == <<"0", "1", "2", "3", "4", "5", "6", "7", "8", "9">>

DigitValue(c) == (CHOOSE i \in 1..10 : Digits[i] = c) - 1

IsDigit(c) == \E i \in 1..10 : Digits[i] = c

\* a canonical array index: "0", "1", ..., "10", ... but not "01" or ""
IsIndex(s) ==
  /\ Len(s) >= 1
  /\ \A i \in 1..Len(s) : IsDigit(s[i])
  /\ (Len(s) > 1 => s[1] # "0")

RECURSIVE ToNat(_)
ToNat(s) ==
  IF s = <<>> THEN 0
  ELSE 10 * ToNat(SubSeq(s, 1, Len(s) - 1)) + DigitValue(s[Len(s)])

\* s.indexOf(sub, from) with positions counted from 1; 0 when there is none
RECURSIVE IndexOf(_, _, _)
IndexOf(s, sub, from) ==
  IF from + Len(sub) - 1 > Len(s) THEN 0
  ELSE IF SubSeq(s, from, from + Len(sub) - 1) = sub THEN from
  ELSE IndexOf(s, sub, from + 1)

\* s.includes('.')
IncludesDot(s) == \E i \in 1..Len(s) : s[i] = "."

\* s.split('.')
RECURSIVE Split(_)
Split(s) ==
  LET d == IndexOf(s, <<".">>, 1)
  IN  IF d = 0 THEN <<s>>
      ELSE <<SubSeq(s, 1, d - 1)>> \o Split(SubSeq(s, d + 1, Len(s)))

\* s.trim()
RECURSIVE Trim(_)
Trim(s) ==
  IF s = <<>> THEN s
  ELSE IF s[1] = " " THEN Trim(Tail(s))
  ELSE IF s[Len(s)] = " " THEN Trim(SubSeq(s, 1, Len(s) - 1))
  ELSE s

LengthKey == <<"l", "e", "n", "g", "t", "h">>
UndefinedKey == <<"u", "n", "d", "e", "f", "i", "n", "e", "d">>

\* a property key made of a value: `obj[undefined]` reads the key "undefined"
ToKey(v) == IF v.t = "string" THEN v.s ELSE UndefinedKey

\* v[key] for a value that is not undefined: own properties of objects, the
\* elements and length of arrays, the characters and length of strings
Get(v, key) ==
  CASE v.t = "object" ->
         IF key \in DOMAIN v.f THEN v.f[key] ELSE Undefined
    [] v.t = "array" ->
         IF IsIndex(key) /\ ToNat(key) < Len(v.a) THEN v.a[ToNat(key) + 1]
         ELSE IF key = LengthKey THEN Num(Len(v.a))
         ELSE Undefined
    [] v.t = "string" ->
         IF IsIndex(key) /\ ToNat(key) < Len(v.s) THEN Str(<<v.s[ToNat(key) + 1]>>)
         ELSE IF key = LengthKey THEN Num(Len(v.s))
         ELSE Undefined
    [] OTHER -> Undefined

\* { ...object }: the own enumerable properties of the value, as an object
Spread(v) ==
  CASE v.t = "object" -> v
    [] v.t = "array" ->
         Obj([k \in {<<Digits[i + 1]>> : i \in 0..(Len(v.a) - 1)} |->
                v.a[DigitValue(k[1]) + 1]])
    [] OTHER -> Obj(<<>>)

----------------------------------------------------------------------------
(* The error messages of the class *)

ErrTags == "tags should consist of exactly two strings"
ErrNoPath == "localesPath is not defined"
ErrZero == "zero dictionaries found"
ErrNoDictionary == "could not find dictionary"
ErrNonString == "failed to lookup: the result is not a string"
ErrNoLocale == "currentLocale is not defined"
ErrRaw == "failed to get raw entity by key"
ErrTranslate == "failed to render the template by keys"
ErrPluralFind == "failed to find the template by key"
ErrPlural == "failed to render the plural template by key"
ErrList == "failed to get a list by key"
\* thrown by the runtime and by the renderer, not by the class
ErrType == "TypeError"
ErrSyntax == "SyntaxError"
ErrNoEntry == "ENOENT"

----------------------------------------------------------------------------
(* Key Path Resolver: lookup and getTemplate *)

\* the for loop of lookup: result = result[key], the path itself at the first
\* undefined
RECURSIVE Walk(_, _, _, _)
Walk(result, keys, i, path) ==
  IF i > Len(keys) THEN result
  ELSE LET next == Get(result, keys[i])
       IN  IF next.t = "undefined" THEN Str(path)
           ELSE Walk(next, keys, i + 1, path)

lookup(object, path, failOnNonString) ==
  LET keys == Split(path)
      result == Walk(Spread(object), keys, 1, path)
  IN  IF ~TypeofString(result) /\ failOnNonString
      THEN Throw(ErrNonString)
      ELSE Return(result)

\* getTemplate(key, failOnNonString, dictionary = this.dictionary!): an
\* undefined third argument takes the default, the current dictionary
getTemplate(key, failOnNonString, dictionaryArg, thisDictionary) ==
  LET dict == IF dictionaryArg.t = "undefined" THEN thisDictionary
              ELSE dictionaryArg
  IN  IF IncludesDot(key) THEN lookup(dict, key, failOnNonString)
      ELSE IF dict.t = "undefined" THEN Throw(ErrType)
      ELSE LET template == Get(dict, key)
           IN  IF template.t = "undefined" THEN Return(Str(key))
               ELSE IF ~TypeofString(template) /\ failOnNonString
               THEN Throw(ErrNonString)
               ELSE Return(template)

----------------------------------------------------------------------------
(* Template Renderer: micromustache's render(template, scope, { tags }) *)

DefaultTags == <<<<"{", "{">>, <<"}", "}">>>>

\* the value a variable name has in the scope, as text ('' when it has none)
ScopeText(scope, name) ==
  LET v == IF scope.t = "undefined" THEN Undefined ELSE Get(scope, name)
  IN  IF v.t = "string" THEN v.s ELSE <<>>

\* the rendered text, or <<"!", message>> on a malformed template
RECURSIVE RenderText(_, _, _)
RenderText(template, scope, tags) ==
  LET open == IndexOf(template, tags[1], 1)
  IN  IF open = 0 THEN <<"text", template>>
      ELSE
        LET close == IndexOf(template, tags[2], open + Len(tags[1]))
        IN  IF close = 0 THEN <<"!", ErrSyntax>>
            ELSE
              LET name == Trim(SubSeq(template, open + Len(tags[1]), close - 1))
                  rest == RenderText(
                            SubSeq(template, close + Len(tags[2]), Len(template)),
                            scope, tags)
              IN  IF name = <<>> \/ IndexOf(name, tags[1], 1) # 0
                  THEN <<"!", ErrSyntax>>
                  ELSE IF rest[1] = "!" THEN rest
                  ELSE <<"text", SubSeq(template, 1, open - 1)
                                   \o ScopeText(scope, name) \o rest[2]>>

\* this.render(template, scope)
render(template, scope, tags) ==
  IF ~TypeofString(template) THEN Throw(ErrType)
  ELSE LET r == RenderText(template.s, scope, tags)
       IN  IF r[1] = "!" THEN Throw(r[2]) ELSE Return(Str(r[2]))

----------------------------------------------------------------------------
(* Plural Category Resolver: new Intl.PluralRules('ar-EG').select(count),  *)
(* the CLDR cardinal rules of Arabic on a non-negative integer             *)

select(count) ==
  LET n100 == count % 100
  IN  IF count = 0 THEN "zero"
      ELSE IF count = 1 THEN "one"
      ELSE IF count = 2 THEN "two"
      ELSE IF n100 >= 3 /\ n100 <= 10 THEN "few"
      ELSE IF n100 >= 11 /\ n100 <= 99 THEN "many"
      ELSE "other"

zero == <<"z", "e", "r", "o">>
one == <<"o", "n", "e">>
two == <<"t", "w", "o">>
few == <<"f", "e", "w">>
many == <<"m", "a", "n", "y">>
other == <<"o", "t", "h", "e", "r">>

\* the choice of the template with the last two fallbacks in the other order
pluralTemplate_OtherFirst(obj, rule) ==
  LET templateByRule ==
        CASE rule = "zero" -> Coalesce(Get(obj, zero),
                                       Coalesce(Get(obj, other), Get(obj, many)))
          [] rule = "one" -> Coalesce(Get(obj, one), Get(obj, other))
          [] rule = "two" -> Coalesce(Get(obj, two),
                                      Coalesce(Get(obj, few), Get(obj, many)))
          [] rule = "few" -> Coalesce(Get(obj, few), Get(obj, many))
          [] OTHER -> Undefined
  IN  Coalesce(templateByRule, Coalesce(Get(obj, other), Get(obj, many)))

\* templateByRule[rule] ?? obj.many ?? obj.other
pluralTemplate(obj, rule) ==
  LET templateByRule ==
        CASE rule = "zero" -> Coalesce(Get(obj, zero),
                                       Coalesce(Get(obj, other), Get(obj, many)))
          [] rule = "one" -> Coalesce(Get(obj, one), Get(obj, other))
          [] rule = "two" -> Coalesce(Get(obj, two),
                                      Coalesce(Get(obj, few), Get(obj, many)))
          [] rule = "few" -> Coalesce(Get(obj, few), Get(obj, many))
          [] OTHER -> Undefined
  IN  Coalesce(templateByRule, Coalesce(Get(obj, many), Get(obj, other)))

----------------------------------------------------------------------------
(* The instance: its fields as one record, so that a private method is an  *)
(* operator from the fields before it to the fields after it and how it    *)
(* ended.                                                                  *)

Self ==
  [options |-> options, dictionaries |-> dictionaries,
   dictionary |-> dictionary, languages |-> languages]

Done(st, out) == [st |-> st, out |-> out]

\* the getters
locale(st) == st.options.currentLocale
defaultLocale(st) == st.options.defaultLocale
localesPath(st) == st.options.localesPath
tags(st) ==
  IF st.options.tags.t = "undefined" THEN DefaultTags
  ELSE <<st.options.tags.a[1].s, st.options.tags.a[2].s>>
throwOnFailure(st) == Coalesce(st.options.throwOnFailure, Bool(FALSE)).b
extensions(st) == Coalesce(st.options.extensions, Arr(<<>>)).a

\* s.lastIndexOf('.') counted from 1; 0 when there is none
LastIndexOfDot(s) ==
  IF IncludesDot(s)
  THEN CHOOSE i \in 1..Len(s) : s[i] = "." /\ \A j \in (i + 1)..Len(s) : s[j] # "."
  ELSE 0

\* the filter of loadDictionaries: does the file pass the extension list?
accepted(st, file) ==
  IF Len(extensions(st)) = 0 THEN TRUE
  ELSE \E i \in 1..Len(extensions(st)) :
         extensions(st)[i].s = SubSeq(file, LastIndexOfDot(file) + 1, Len(file))

\* the reduce of loadDictionaries pushing the key of every file, known or not
RECURSIVE reduceFiles_PushAll(_, _, _, _)
reduceFiles_PushAll(files, i, acc, langs) ==
  IF i > Len(files) THEN [acc |-> acc, languages |-> langs]
  ELSE reduceFiles_PushAll(files, i + 1,
         [k \in (DOMAIN acc) \cup {Split(files[i].name)[1]} |->
            IF k = Split(files[i].name)[1] THEN files[i].content ELSE acc[k]],
         Append(langs, Split(files[i].name)[1]))

\* the reduce of loadDictionaries over the accepted files of the directory:
\* the language list grows by the keys not yet in it, acc[key] is the parsed
\* content of the file (the parser's result is what the directory holds)
RECURSIVE reduceFiles(_, _, _, _)
reduceFiles(files, i, acc, langs) ==
  IF i > Len(files) THEN [acc |-> acc, languages |-> langs]
  ELSE LET key == Split(files[i].name)[1]
           langs2 == IF \E j \in 1..Len(langs) : langs[j] = key THEN langs
                     ELSE Append(langs, key)
           acc2 == [k \in (DOMAIN acc) \cup {key} |->
                      IF k = key THEN files[i].content ELSE acc[k]]
       IN  reduceFiles(files, i + 1, acc2, langs2)

\* the end of loadDictionaries: `dictionaries.length === 0` reads the property
\* "length" of the object built by the reduce
loadResult(st, red) ==
  IF StrictEq(Get(Obj(red.acc), LengthKey), Num(0))
  THEN Done([st EXCEPT !.languages = red.languages], Throw(ErrZero))
  ELSE Done([st EXCEPT !.languages = red.languages,
                       !.dictionaries = Obj(red.acc)], Return(Undefined))

loadDictionaries(st) ==
  IF localesPath(st).t = "undefined" THEN Done(st, Throw(ErrNoPath))
  ELSE IF localesPath(st).s \notin DOMAIN fs THEN Done(st, Throw(ErrNoEntry))
  ELSE loadResult(st,
         reduceFiles(SelectSeq(fs[localesPath(st).s],
                               LAMBDA f : accepted(st, f.name)),
                     1, <<>>, st.languages))

\* the end of loadDictionary, d being dictionaries[locale] ?? dictionaries[defaultLocale]
resolved(st, d) ==
  IF d.t = "undefined" THEN Done(st, Throw(ErrNoDictionary))
  ELSE Done([st EXCEPT !.dictionary = d], Return(Undefined))

\* loadDictionary with the two locales consulted in the other order
loadDictionary_FallbackFirst(st) ==
  resolved(st, Coalesce(Get(st.dictionaries, ToKey(defaultLocale(st))),
                        Get(st.dictionaries, ToKey(locale(st)))))

loadDictionary(st) ==
  resolved(st, Coalesce(Get(st.dictionaries, ToKey(locale(st))),
                        Get(st.dictionaries, ToKey(defaultLocale(st)))))

\* the first step of preload scanning the directory on every call
preloadDictionaries_Always(st) == loadDictionaries(st)

\* the three steps of preload, each on the outcome of the one before
preloadDictionaries(st) ==
  IF st.dictionaries.t = "undefined" THEN loadDictionaries(st)
  ELSE Done(st, Return(Undefined))

preloadDictionary(a, requireLocale) ==
  IF a.out.k = "throw" THEN a
  ELSE IF a.st.dictionary.t = "undefined" /\ requireLocale THEN loadDictionary(a.st)
  ELSE a

preloadLocale(b, requireLocale) ==
  IF b.out.k = "throw" THEN b
  ELSE IF locale(b.st).t = "undefined" /\ requireLocale
  THEN Done(b.st, Throw(ErrNoLocale))
  ELSE b

preload(st, requireLocale) ==
  preloadLocale(preloadDictionary(preloadDictionaries(st), requireLocale),
                requireLocale)

----------------------------------------------------------------------------
(* Translation Engine *)

\* __r after its getTemplate(key, false)
rawResult(st, template) ==
  IF template.k = "throw" THEN Done(st, template)
  ELSE IF throwOnFailure(st) THEN Done(st, Throw(ErrRaw))
  ELSE Done(st, template)

\* __r after its preload()
rawLoaded(p, key) ==
  IF p.out.k = "throw" THEN p
  ELSE rawResult(p.st, getTemplate(key, FALSE, Undefined, p.st.dictionary))

\* __r(key), alias raw
raw(st, key) == rawLoaded(preload(st, TRUE), key)

\* the end of __ returning the first candidate instead of the last
translateMiss_FirstKey(st, actualKeys) ==
  IF throwOnFailure(st) THEN Throw(ErrTranslate)
  ELSE IF Len(actualKeys) = 0 THEN Return(Undefined)
  ELSE Return(Str(actualKeys[1]))

\* the end of __, after the loop found nothing
translateMiss(st, actualKeys) ==
  IF throwOnFailure(st) THEN Throw(ErrTranslate)
  ELSE IF Len(actualKeys) = 0 THEN Return(Undefined)
  ELSE Return(Str(actualKeys[Len(actualKeys)]))

\* one round of the loop of __: the template of the key is returned as it is
\* when it differs from the key
translateStep(template, key) ==
  IF template.k = "throw" THEN template
  ELSE IF ~StrictEq(template.v, Str(key)) THEN Return(template.v)
  ELSE Return(Undefined)

\* is the round the last one (a return or a throw)?
translateEnds(template, key) ==
  template.k = "throw" \/ ~StrictEq(template.v, Str(key))

\* the for loop of __ and what follows it
RECURSIVE translateFrom(_, _, _)
translateFrom(st, actualKeys, i) ==
  IF i > Len(actualKeys) THEN translateMiss(st, actualKeys)
  ELSE IF translateEnds(getTemplate(actualKeys[i], TRUE, Undefined, st.dictionary),
                        actualKeys[i])
  THEN translateStep(getTemplate(actualKeys[i], TRUE, Undefined, st.dictionary),
                     actualKeys[i])
  ELSE translateFrom(st, actualKeys, i + 1)

\* __ after its preload()
translateLoaded(p, actualKeys) ==
  IF p.out.k = "throw" THEN p
  ELSE Done(p.st, translateFrom(p.st, actualKeys, 1))

\* __(keys, scope), alias translate; actualKeys is [keys] for a single key
translate(st, actualKeys, scope) == translateLoaded(preload(st, TRUE), actualKeys)

\* __n after the template was chosen
pluralResult(st, obj, template, key, scope) ==
  IF obj.t = "undefined"
  THEN IF throwOnFailure(st) THEN Done(st, Throw(ErrPluralFind))
       ELSE Done(st, Return(Str(key)))
  ELSE IF template.t = "undefined"
  THEN IF throwOnFailure(st) THEN Done(st, Throw(ErrPlural))
       ELSE Done(st, Return(Str(key)))
  ELSE Done(st, render(template, scope, tags(st)))

\* __n after its __r(key)
pluralOf(r, count, key, scope) ==
  IF r.out.k = "throw" THEN r
  ELSE pluralResult(r.st, r.out.v, pluralTemplate(r.out.v, select(count)),
                    key, scope)

\* __n(count, key, scope), alias plural
plural(st, count, key, scope) == pluralOf(raw(st, key), count, key, scope)

\* one round of the loop of __l pushing whatever the lookup returned, the
\* echoed key of a miss too
listPush_Placeholder(template, key, scope, tg, templates) ==
  IF template.k = "throw" THEN template
  ELSE IF render(template.v, scope, tg).k = "throw"
  THEN render(template.v, scope, tg)
  ELSE Return(Arr(Append(templates, render(template.v, scope, tg).v)))

\* one round of the loop of __l: the templates with the rendered template
\* pushed when it differs from the key, or the throw
listPush(template, key, scope, tg, templates) ==
  IF template.k = "throw" THEN template
  ELSE IF StrictEq(template.v, Str(key)) THEN Return(Arr(templates))
  ELSE IF render(template.v, scope, tg).k = "throw"
  THEN render(template.v, scope, tg)
  ELSE Return(Arr(Append(templates, render(template.v, scope, tg).v)))

\* the for loop of __l: the templates pushed, or the first throw
RECURSIVE listFrom(_, _, _, _, _)
listFrom(st, key, scope, i, acc) ==
  IF i > Len(st.languages) \/ acc.k = "throw" THEN acc
  ELSE listFrom(st, key, scope, i + 1,
         listPush(getTemplate(key, TRUE, Get(st.dictionaries, st.languages[i]),
                              st.dictionary),
                  key, scope, tags(st), acc.v.a))

\* the end of __l without the list-miss failure
listResult_NeverThrows(st, l) == Done(st, l)

\* the end of __l
listResult(st, l) ==
  IF l.k = "throw" THEN Done(st, l)
  ELSE IF Len(l.v.a) = 0 /\ throwOnFailure(st) THEN Done(st, Throw(ErrList))
  ELSE Done(st, l)

\* __l after its preload(false)
listLoaded(p, key, scope) ==
  IF p.out.k = "throw" THEN p
  ELSE listResult(p.st, listFrom(p.st, key, scope, 1, Return(Arr(<<>>))))

\* __l(key, scope), alias list
list(st, key, scope) == listLoaded(preload(st, FALSE), key, scope)

\* the end of a locale setter that loads and resolves at once, loaded or not
reload_Eager(st) == preloadDictionary(preloadDictionaries(st), TRUE)

\* the end of a locale setter that leaves the current dictionary as it is
reload_Lazy(st) == Done(st, Return(Undefined))

\* the end of a locale setter that scans the directory again before it
\* resolves the current dictionary
reloadAfter(a) == IF a.out.k = "throw" THEN a ELSE loadDictionary(a.st)

reload_Reloading(st) ==
  IF st.dictionaries.t # "undefined" THEN reloadAfter(loadDictionaries(st))
  ELSE Done(st, Return(Undefined))

\* the end of set locale and of set defaultLocale
reload(st) ==
  IF st.dictionaries.t # "undefined" THEN loadDictionary(st)
  ELSE Done(st, Return(Undefined))

\* set locale
setLocale(st, value) == reload([st EXCEPT !.options.currentLocale = value])

\* set defaultLocale
setDefaultLocale(st, value) ==
  reload([st EXCEPT !.options.defaultLocale = value])

\* set localesPath
setLocalesPath(st, value) ==
  loadDictionaries([st EXCEPT !.options.localesPath = value])

\* set tags
setTags(st, value) == Done([st EXCEPT !.options.tags = value], Return(Undefined))

\* set throwOnFailure
setThrowOnFailure(st, value) ==
  Done([st EXCEPT !.options.throwOnFailure = Coalesce(value, Bool(FALSE))],
       Return(Undefined))

\* set extensions
setExtensions(st, value) ==
  Done([st EXCEPT !.options.extensions = value], Return(Undefined))

\* the constructor: the only check is the length of a given `tags`
constructor(opts) ==
  IF opts.tags.t # "undefined" /\ Len(opts.tags.a) # 2 THEN Throw(ErrTags)
  ELSE Return(Undefined)

----------------------------------------------------------------------------
(* The locale directories and the inputs of the calls *)

MaxKeys == 2      \* the longest list of candidate keys given to translate
MaxCount == 12    \* counts are 0..MaxCount and 100..100 + MaxCount

en == <<"e", "n">>
ru == <<"r", "u">>
de == <<"d", "e">>
fr == <<"f", "r">>
xx == <<"x", "x">>
json == <<"j", "s", "o", "n">>
txt == <<"t", "x", "t">>
File(stem, ext, content) == [name |-> stem \o <<".">> \o ext, content |-> content]

pathA == <<"/", "a">>
pathB == <<"/", "b">>
pathC == <<"/", "c">>

\* the README's plural entry: one, few, many and other
apple ==
  Obj(MapOf(<<
    <<one, Str(<<"1">>)>>,
    <<few, Str(<<"3">>)>>,
    <<many, Str(<<"7", "{", "{", "v", "}", "}">>)>>,
    <<other, Str(<<"9">>)>> >>))

enA ==
  Obj(MapOf(<<
    <<<<"a">>, Str(<<"A", "{", "{", "v", "}", "}">>)>>,
    <<<<"b">>, Str(<<"b">>)>>,
    <<<<"f">>, Obj(MapOf(<<
        <<<<"g">>, Arr(<<Obj(MapOf(<<
            <<<<"h">>, Str(<<"H", "<", "v", ">", "{", "{", " ", "v", " ", "}", "}">>)>> >>))>>)>>,
        <<<<"s">>, Str(<<"x", "y">>)>> >>))>>,
    <<<<"n">>, apple>> >>))

ruA ==
  Obj(MapOf(<<
    <<<<"a">>, Str(<<"R">>)>>,
    <<<<"c">>, Str(<<"C", "{", "{", "v", "}", "}">>)>>,
    <<<<"n">>, Obj(MapOf(<<
        <<one, Str(<<"r", "1">>)>>,
        <<other, Str(<<"r", "9">>)>> >>))>> >>))

deA ==
  Obj(MapOf(<<
    <<<<"b">>, Str(<<"b">>)>>,
    <<<<"c">>, Obj(MapOf(<< <<<<"k">>, Str(<<"K">>)>> >>))>> >>))

ruB ==
  Obj(MapOf(<<
    <<<<"a">>, Str(<<"R", "2">>)>>,
    <<<<"b">>, Str(<<"B", "2">>)>> >>))

frB == Obj(MapOf(<< <<<<"a">>, Str(<<"F">>)>> >>))

enC == Obj(MapOf(<< <<<<"a">>, Str(<<"T">>)>> >>))

\* /a: en, ru, de; /b: ru (other content) and fr, en is gone; /c: one .txt file
Disk ==
  MapOf(<<
    <<pathA, <<File(en, json, enA), File(ru, json, ruA), File(de, json, deA)>>>>,
    <<pathB, <<File(ru, json, ruB), File(fr, json, frB)>>>>,
    <<pathC, <<File(en, txt, enC)>>>> >>)

\* a dictionary file whose only entry, "n", is the plural object that defines
\* exactly the given categories; the template of `many` names a variable
Categories == <<zero, one, two, few, many, other>>

FormOf(c) == IF c = many THEN <<"M", "{", "{", "v", "}", "}">> ELSE <<"T">> \o c

PluralObject(defined) == Obj([c \in defined |-> Str(FormOf(c))])

PluralDisk(defined) ==
  MapOf(<< <<pathA, <<File(en, json,
                           Obj(MapOf(<< <<<<"n">>, PluralObject(defined)>> >>)))>>>> >>)

Keys ==
  { <<"a">>, <<"b">>, <<"c">>, <<"z">>, <<"f">>, <<"n">>,
    <<"f", ".", "g", ".", "0", ".", "h">>,
    <<"f", ".", "g", ".", "1", ".", "h">>,
    <<"f", ".", "z", ".", "h">>,
    <<"f", ".", "s", ".", "0">>,
    <<"f", ".", "g">> }

\* the candidates of a key list: a template, a value equal to its key, an
\* absent key; and lists with a candidate that is not a string
ListKeys == { <<"a">>, <<"b">>, <<"z">> }

RECURSIVE SeqsUpTo(_, _)
SeqsUpTo(S, n) ==
  IF n = 0 THEN {<<>>}
  ELSE LET shorter == SeqsUpTo(S, n - 1)
       IN  shorter \cup {Append(q, x) : q \in shorter, x \in S}

KeyLists ==
  {<<k>> : k \in Keys} \cup SeqsUpTo(ListKeys, MaxKeys)
    \cup { << <<"f">>, <<"a">> >>, << <<"z">>, <<"f">> >>, << <<"a">>, <<"f">> >> }

NoScope == Undefined
ScopeV == Obj(MapOf(<< <<<<"v">>, Str(<<"w">>)>> >>))
Scopes == <<NoScope, ScopeV>>

Counts == (0..MaxCount) \cup {100, 101, 102, 103, 111}

AltTags == Arr(<<Str(<<"<">>), Str(<<">">>)>>)
BadTags == Arr(<<Str(<<"{", "{">>)>>)

\* malformed delimiter pairs of length two: twice the same marker, an empty one
EqualTags == Arr(<<Str(<<"{", "{">>), Str(<<"{", "{">>)>>)
EmptyTags == Arr(<<Str(<<>>), Str(<<"}", "}">>)>>)
DelimiterChoices == <<Undefined, AltTags, BadTags, EqualTags, EmptyTags>>

\* the directories after another process rewrote them: /a holds ru (other
\* content) and fr
Rewritten ==
  MapOf(<<
    <<pathA, <<File(ru, json, ruB), File(fr, json, frB)>>>>,
    <<pathB, <<File(ru, json, ruB), File(fr, json, frB)>>>>,
    <<pathC, <<File(en, txt, enC)>>>> >>)

LocaleChoices == <<Undefined, Str(en), Str(ru), Str(xx)>>
PathChoices == <<Undefined, Str(pathA), Str(pathB), Str(pathC)>>
TagChoices == <<Undefined, AltTags, BadTags>>
FlagChoices == <<Undefined, Bool(TRUE), Bool(FALSE)>>
ExtensionChoices == <<Undefined, Arr(<<Str(json)>>)>>

----------------------------------------------------------------------------
(* The state machine *)

Call(op, keys, count, scope, arg, out) ==
  [op |-> op, keys |-> keys, count |-> count, scope |-> scope, arg |-> arg,
   out |-> out]

Options(path, current, default, tg, flag, ext) ==
  [localesPath |-> path, currentLocale |-> current, defaultLocale |-> default,
   tags |-> tg, throwOnFailure |-> flag, extensions |-> ext]

\* new I18n(opts) over the directories `disk`: nothing is loaded, nothing is
\* resolved, no language is known
New(disk, opts) ==
  /\ fs = disk
  /\ options = opts
  /\ dictionaries = Undefined
  /\ dictionary = Undefined
  /\ languages = <<>>
  /\ last = Call("new", <<>>, 0, Undefined, Undefined, constructor(opts))

\* there is an instance to call: the constructor did not throw
Constructed == ~(last.op = "new" /\ last.out.k = "throw")

\* a call: the fields are what the method left, `last` is the call and how it
\* ended
Apply(r, op, keys, count, scope, arg) ==
  /\ options' = r.st.options
  /\ dictionaries' = r.st.dictionaries
  /\ dictionary' = r.st.dictionary
  /\ languages' = r.st.languages
  /\ last' = Call(op, keys, count, scope, arg, r.out)
  /\ UNCHANGED fs

Raw(key) ==
  /\ Constructed
  /\ Apply(raw(Self, key), "raw", <<key>>, 0, Undefined, Undefined)

Translate(keys, scope) ==
  /\ Constructed
  /\ Apply(translate(Self, keys, scope), "translate", keys, 0, scope, Undefined)

Plural(count, key, scope) ==
  /\ Constructed
  /\ Apply(plural(Self, count, key, scope), "plural", <<key>>, count, scope, Undefined)

List(key, scope) ==
  /\ Constructed
  /\ Apply(list(Self, key, scope), "list", <<key>>, 0, scope, Undefined)

SetLocale(value) ==
  /\ Constructed
  /\ Apply(setLocale(Self, value), "setLocale", <<>>, 0, Undefined, value)

SetDefaultLocale(value) ==
  /\ Constructed
  /\ Apply(setDefaultLocale(Self, value), "setDefaultLocale", <<>>, 0, Undefined, value)

SetLocalesPath(value) ==
  /\ Constructed
  /\ Apply(setLocalesPath(Self, value), "setLocalesPath", <<>>, 0, Undefined, value)

SetTags(value) ==
  /\ Constructed
  /\ Apply(setTags(Self, value), "setTags", <<>>, 0, Undefined, value)

SetThrowOnFailure(value) ==
  /\ Constructed
  /\ Apply(setThrowOnFailure(Self, value), "setThrowOnFailure", <<>>, 0, Undefined, value)

SetExtensions(value) ==
  /\ Constructed
  /\ Apply(setExtensions(Self, value), "setExtensions", <<>>, 0, Undefined, value)

\* another process rewrites the directories the loader reads; the instance
\* does not notice
Rewrite(disk) ==
  /\ Constructed
  /\ fs' = disk
  /\ last' = Call("rewrite", <<>>, 0, Undefined, Undefined, Return(Undefined))
  /\ UNCHANGED <<options, dictionaries, dictionary, languages>>

(* The whole life of an instance: every setter and every read, on a few    *)
(* keys.                                                                   *)

LifeKeys == { <<"a">>, <<"z">> }
LifeLocales == <<Undefined, Str(en), Str(ru)>>

Init ==
  \E p \in 1..2, l \in 1..2, t \in {1, 3} :
    New(Disk, Options(PathChoices[p], LifeLocales[l], Undefined,
                      TagChoices[t], Undefined, Undefined))

Next ==
  \/ \E key \in LifeKeys : Raw(key)
  \/ \E key \in LifeKeys : Translate(<<key>>, NoScope)
  \/ Plural(1, <<"n">>, NoScope)
  \/ \E key \in LifeKeys : List(key, NoScope)
  \/ \E i \in 1..Len(LifeLocales) : SetLocale(LifeLocales[i])
  \/ \E i \in 1..Len(LifeLocales) : SetDefaultLocale(LifeLocales[i])
  \/ \E i \in 1..Len(PathChoices) : SetLocalesPath(PathChoices[i])
  \/ SetTags(Undefined)
  \/ SetThrowOnFailure(Bool(TRUE))
  \/ SetExtensions(Arr(<<Str(json)>>))

Spec == Init /\ [][Next]_vars

(* Lookups: raw and translate on every key and key list, from every        *)
(* configuration of locale, fallback locale, flag and tags.                *)

InitLookup ==
  \E l \in 1..4, d \in {1, 2, 4}, t \in 1..2, f \in 1..2 :
    New(Disk, Options(Str(pathA), LocaleChoices[l], LocaleChoices[d],
                      TagChoices[t], FlagChoices[f], Undefined))

NextLookup ==
  \/ \E key \in Keys : Raw(key)
  \/ \E keys \in KeyLists, s \in 1..Len(Scopes) : Translate(keys, Scopes[s])

SpecLookup == InitLookup /\ [][NextLookup]_vars

(* Pluralization: every set of defined categories, every count.            *)

InitPlural ==
  \E defined \in SUBSET {Categories[i] : i \in 1..Len(Categories)}, f \in 1..2 :
    New(PluralDisk(defined),
        Options(Str(pathA), Str(en), Undefined, Undefined, FlagChoices[f], Undefined))

NextPlural ==
  \E count \in Counts, key \in {<<"n">>, <<"z">>} : Plural(count, key, ScopeV)

SpecPlural == InitPlural /\ [][NextPlural]_vars

(* Listing: every key, with and without an active locale.                  *)

InitList ==
  \E l \in 1..3, t \in 1..2, f \in 1..2 :
    New(Disk, Options(Str(pathA), LocaleChoices[l], Undefined,
                      TagChoices[t], FlagChoices[f], Undefined))

NextList ==
  \E key \in Keys, s \in 1..Len(Scopes) : List(key, Scopes[s])

SpecList == InitList /\ [][NextList]_vars

(* The two modes: translate and listAll with throw-on-failure enabled and  *)
(* disabled.                                                               *)

InitModes ==
  \E l \in 1..4, f \in 1..2 :
    New(Disk, Options(Str(pathA), LocaleChoices[l], Undefined,
                      Undefined, FlagChoices[f], Undefined))

NextModes ==
  \/ \E keys \in KeyLists : Translate(keys, ScopeV)
  \/ \E key \in Keys : List(key, ScopeV)

SpecModes == InitModes /\ [][NextModes]_vars

(* The locales: the active and the fallback locale are assigned between    *)
(* reads, while another process may rewrite the directory.                 *)

InitLocale ==
  \E l \in 1..4, d \in 1..2 :
    New(Disk, Options(Str(pathA), LocaleChoices[l], LocaleChoices[d],
                      Undefined, Undefined, Undefined))

NextLocale ==
  \/ \E i \in 1..Len(LocaleChoices) : SetLocale(LocaleChoices[i])
  \/ \E i \in 1..Len(LocaleChoices) : SetDefaultLocale(LocaleChoices[i])
  \/ \E key \in LifeKeys : Raw(key)
  \/ \E key \in LifeKeys : Translate(<<key>>, NoScope)
  \/ Rewrite(Rewritten)

SpecLocale == InitLocale /\ [][NextLocale]_vars

(* The source: the path and the extension list are assigned between reads. *)

InitPath ==
  \E p \in 1..3, l \in 2..3, d \in 1..2 :
    New(Disk, Options(PathChoices[p], LocaleChoices[l], LocaleChoices[d],
                      Undefined, Undefined, Undefined))

NextPath ==
  \/ \E i \in 1..Len(PathChoices) : SetLocalesPath(PathChoices[i])
  \/ \E i \in 1..Len(ExtensionChoices) : SetExtensions(ExtensionChoices[i])
  \/ \E key \in LifeKeys : Raw(key)
  \/ \E key \in LifeKeys : Translate(<<key>>, NoScope)
  \/ \E key \in LifeKeys : List(key, NoScope)

SpecPath == InitPath /\ [][NextPath]_vars

(* The reads: the four read operations, while another process may rewrite  *)
(* the directory.                                                          *)

InitReads ==
  \E p \in 1..2, l \in 1..4, d \in 1..2, f \in 1..2 :
    New(Disk, Options(PathChoices[p], LocaleChoices[l], LocaleChoices[d],
                      Undefined, FlagChoices[f], Undefined))

ReadKeys == { <<"a">>, <<"z">>, <<"n">>, <<"f", ".", "g", ".", "0", ".", "h">> }

NextReads ==
  \/ \E key \in ReadKeys : Raw(key)
  \/ \E key \in ReadKeys : Translate(<<key>>, ScopeV)
  \/ \E count \in {1, 7}, key \in ReadKeys : Plural(count, key, ScopeV)
  \/ \E key \in ReadKeys : List(key, ScopeV)
  \/ Rewrite(Rewritten)

SpecReads == InitReads /\ [][NextReads]_vars

(* The delimiters: every pair the constructor and the setter are given.    *)

InitTags ==
  \E t \in 1..Len(DelimiterChoices), l \in 1..3, f \in 1..2 :
    New(Disk, Options(Str(pathA), LocaleChoices[l], Undefined,
                      DelimiterChoices[t], FlagChoices[f], Undefined))

NextTags ==
  \/ \E t \in 1..Len(DelimiterChoices) : SetTags(DelimiterChoices[t])
  \/ \E key \in Keys : Translate(<<key>>, ScopeV)

SpecTags == InitTags /\ [][NextTags]_vars

(* The lazy start: the locales are assigned and the reads are made on an   *)
(* instance that has loaded nothing yet.                                   *)

InitLazy ==
  \E p \in 1..2, l \in {1, 2, 4}, d \in 1..2 :
    New(Disk, Options(PathChoices[p], LocaleChoices[l], LocaleChoices[d],
                      Undefined, Undefined, Undefined))

NextLazy ==
  \/ \E i \in 1..Len(LocaleChoices) : SetLocale(LocaleChoices[i])
  \/ \E i \in 1..2 : SetDefaultLocale(LocaleChoices[i])
  \/ \E key \in LifeKeys : Raw(key)
  \/ \E key \in LifeKeys : Translate(<<key>>, NoScope)
  \/ \E key \in {<<"n">>, <<"z">>} : Plural(1, key, NoScope)
  \/ \E key \in LifeKeys : List(key, NoScope)

SpecLazy == InitLazy /\ [][NextLazy]_vars

----------------------------------------------------------------------------
(* What the claims speak of *)

\* the entry of a dictionary value under one segment: a key of a nested
\* dictionary or a position of an array; a string has no entries
Child(v, segment) ==
  CASE v.t = "object" ->
         IF segment \in DOMAIN v.f THEN v.f[segment] ELSE Undefined
    [] v.t = "array" ->
         IF IsIndex(segment) /\ ToNat(segment) < Len(v.a)
         THEN v.a[ToNat(segment) + 1] ELSE Undefined
    [] OTHER -> Undefined

RECURSIVE Descend(_, _, _)
Descend(v, segments, i) ==
  IF i > Len(segments) \/ v.t = "undefined" THEN v
  ELSE Descend(Child(v, segments[i]), segments, i + 1)

\* the value the dictionary defines at the dot-separated key, Undefined when a
\* segment is absent
ValueAt(dict, key) == Descend(dict, Split(key), 1)

\* the read found the engine ready: dictionaries loaded, current dictionary
\* resolved, active locale configured
Ready ==
  /\ dictionaries.t # "undefined"
  /\ dictionary.t # "undefined"
  /\ options.currentLocale.t # "undefined"

Flag == throwOnFailure(Self)

\* the strict lookup of a key in the current dictionary
Strict(key) == getTemplate(key, TRUE, Undefined, dictionary)

\* the strict lookup found something: a string other than the key itself
Found(key) == Strict(key).k = "return" /\ Strict(key).v.s # key

Min(S) == CHOOSE i \in S : \A j \in S : i <= j

----------------------------------------------------------------------------
(* C1: translate(key, scope) on a key whose strict lookup finds a string   *)
(* template returns the renderer's output for that template, the scope and *)
(* the configured tags.                                                    *)

C1_TranslateRenders ==
  (/\ last.op = "translate"
   /\ Len(last.keys) = 1
   /\ Ready
   /\ Found(last.keys[1]))
  => last.out = render(Strict(last.keys[1]).v, last.scope, tags(Self))

(* C2, as claimed: with throw-on-failure disabled, translate([k1..kn])     *)
(* returns the value of the first candidate the current dictionary defines *)
(* as a string, and kn when it defines none, also when a defined value is  *)
(* the same string as its key.  Stated for candidates that are flat keys   *)
(* the dictionary defines as strings or does not define.                   *)

DefinedAsString(key) == ValueAt(dictionary, key).t = "string"

StringOrAbsent(key) ==
  ~IncludesDot(key) /\ ValueAt(dictionary, key).t \in {"string", "undefined"}

C2_FirstDefinedCandidate ==
  (/\ last.op = "translate"
   /\ Len(last.keys) >= 1
   /\ Ready
   /\ ~Flag
   /\ \A i \in 1..Len(last.keys) : StringOrAbsent(last.keys[i]))
  => LET defined == {i \in 1..Len(last.keys) : DefinedAsString(last.keys[i])}
     IN  IF defined = {}
         THEN last.out = Return(Str(last.keys[Len(last.keys)]))
         ELSE last.out = Return(ValueAt(dictionary, last.keys[Min(defined)]))

(* C2, amended: with throw-on-failure disabled, translate([k1..kn]) ends   *)
(* as the strict lookup of the first candidate whose strict lookup is not  *)
(* the candidate itself: it returns that value, a string other than the    *)
(* key, or fails as that lookup fails on a value that is not a string;     *)
(* when every candidate resolves to itself it returns kn.                  *)

C2_FirstMatchWins ==
  (/\ last.op = "translate"
   /\ Len(last.keys) >= 1
   /\ Ready
   /\ ~Flag)
  => LET hits == {i \in 1..Len(last.keys) :
                    Strict(last.keys[i]) # Return(Str(last.keys[i]))}
     IN  IF hits = {}
         THEN last.out = Return(Str(last.keys[Len(last.keys)]))
         ELSE last.out = Strict(last.keys[Min(hits)])

\* a list whose first candidate has its own key as value and whose second one
\* is found
C2_Witness ==
  /\ last.op = "translate"
  /\ Len(last.keys) = 2
  /\ Ready
  /\ ~Flag
  /\ ValueAt(dictionary, last.keys[1]) = Str(last.keys[1])
  /\ Found(last.keys[2])
  /\ last.out = Strict(last.keys[2])

(* C3: with throw-on-failure disabled and the engine ready, raw(key)       *)
(* returns the value reached by following the segments of key through the  *)
(* current dictionary, and the key itself when a segment is absent.        *)

C3_RawFollowsPath ==
  (/\ last.op = "raw"
   /\ Ready
   /\ ~Flag)
  => last.out = Return(Coalesce(ValueAt(dictionary, last.keys[1]),
                                Str(last.keys[1])))

(* C4: with throw-on-failure disabled, pluralize(count, key) renders the   *)
(* first defined entry along the ladder of the category of count           *)
(* (zero: other, many; one: other; two: few, many; few: many), then many,  *)
(* then other, and returns key when the value at key is absent or no such  *)
(* entry is defined.                                                       *)

Category(count) == CHOOSE c \in {zero, one, two, few, many, other} :
  \/ c = zero /\ select(count) = "zero"
  \/ c = one /\ select(count) = "one"
  \/ c = two /\ select(count) = "two"
  \/ c = few /\ select(count) = "few"
  \/ c = many /\ select(count) = "many"
  \/ c = other /\ select(count) = "other"

Ladder(c) ==
  (CASE c = zero -> <<zero, other, many>>
     [] c = one -> <<one, other>>
     [] c = two -> <<two, few, many>>
     [] c = few -> <<few, many>>
     [] OTHER -> <<>>) \o <<many, other>>

\* the plural object at the key of the last call (Undefined when absent)
PluralObjectAt == ValueAt(dictionary, last.keys[1])

Defines(obj, c) == obj.t = "object" /\ c \in DOMAIN obj.f

\* the first defined entry along a sequence of categories, Undefined if none
FirstDefined(obj, cs) ==
  IF \E i \in 1..Len(cs) : Defines(obj, cs[i])
  THEN obj.f[cs[Min({i \in 1..Len(cs) : Defines(obj, cs[i])})]]
  ELSE Undefined

C5_ExactCategoryWins ==
  (/\ last.op = "plural"
   /\ Ready
   /\ ~Flag
   /\ Defines(PluralObjectAt, Category(last.count)))
  => last.out = render(PluralObjectAt.f[Category(last.count)], last.scope, tags(Self))

(* C6: for a plural object that defines one, few, many and other,          *)
(* pluralize returns the one form for count 1, the few form for count 3    *)
(* and the many form for count 7.                                          *)

IsApple(obj) == obj.t = "object" /\ DOMAIN obj.f = {one, few, many, other}

C6_ReadmeForms ==
  (/\ last.op = "plural"
   /\ Ready
   /\ ~Flag
   /\ IsApple(PluralObjectAt)
   /\ last.count \in {1, 3, 7})
  => last.out = render(PluralObjectAt.f[CASE last.count = 1 -> one
                                          [] last.count = 3 -> few
                                          [] OTHER -> many],
                       last.scope, tags(Self))

(* C7, as claimed: listAll(key, scope) succeeds without an active locale   *)
(* and returns one rendered element for every known language whose         *)
(* dictionary defines key as a string, in language-scan order, and none    *)
(* for a language that does not define key, also when a value is the same  *)
(* string as key.  Stated for keys every language defines as a string or   *)
(* does not define, with throw-on-failure disabled.                        *)

DictionaryOf(language) == Get(dictionaries, language)

DefinesAsString(language) ==
  ValueAt(DictionaryOf(language), last.keys[1]).t = "string"

DefinesOtherString(language) ==
  /\ DefinesAsString(language)
  /\ ValueAt(DictionaryOf(language), last.keys[1]).s # last.keys[1]

\* the rendered values of the key of the last call in the languages, in
\* order, that define it as a string (other than the key, if `other`)
RECURSIVE RenderedFrom(_, _)
RenderedFrom(i, otherOnly) ==
  IF i > Len(languages) THEN <<>>
  ELSE (IF (IF otherOnly THEN DefinesOtherString(languages[i])
            ELSE DefinesAsString(languages[i]))
        THEN <<render(ValueAt(DictionaryOf(languages[i]), last.keys[1]),
                      last.scope, tags(Self)).v>>
        ELSE <<>>) \o RenderedFrom(i + 1, otherOnly)

\* every known language is loaded and has a string or nothing at the flat key
ListCase ==
  /\ last.op = "list"
  /\ dictionaries.t # "undefined"
  /\ ~IncludesDot(last.keys[1])
  /\ \A i \in 1..Len(languages) :
       /\ DictionaryOf(languages[i]).t # "undefined"
       /\ ValueAt(DictionaryOf(languages[i]), last.keys[1]).t
            \in {"string", "undefined"}

ActiveDictionary == Get(dictionaries, ToKey(options.currentLocale))
FallbackDictionary == Get(dictionaries, ToKey(options.defaultLocale))

\* raw or translate of one key, the engine ready, throw-on-failure disabled
OneKeyLookup ==
  /\ last.op \in {"raw", "translate"}
  /\ Len(last.keys) = 1
  /\ Ready
  /\ ~Flag

OnlyFallbackDefines ==
  /\ OneKeyLookup
  /\ ActiveDictionary.t # "undefined"
  /\ FallbackDictionary.t # "undefined"
  /\ ValueAt(ActiveDictionary, last.keys[1]).t = "undefined"
  /\ ValueAt(FallbackDictionary, last.keys[1]).t = "string"

C9_RawThrowsOnlyOnMiss ==
  (/\ last.op = "raw"
   /\ Ready
   /\ Flag)
  => IF ValueAt(dictionary, last.keys[1]).t = "undefined"
     THEN last.out = Throw(ErrRaw)
     ELSE last.out = Return(ValueAt(dictionary, last.keys[1]))

(* C10: with throw-on-failure enabled, pluralize(count, key) on a plural   *)
(* object with a usable form for count returns the rendered template, as   *)
(* with the flag disabled; it fails with the plural-miss error only when   *)
(* the value at key is absent or no form is usable.  Stated for the counts *)
(* that have a usable form.                                                *)

C10_PluralThrowsOnlyOnMiss ==
  (/\ last.op = "plural"
   /\ Ready
   /\ Flag
   /\ FirstDefined(PluralObjectAt, Ladder(Category(last.count))).t # "undefined")
  => last.out = render(FirstDefined(PluralObjectAt, Ladder(Category(last.count))),
                       last.scope, tags(Self))

(* C11: for the same dictionaries, locale and arguments, translate with    *)
(* throw-on-failure enabled fails with the translate-miss error exactly    *)
(* when with the flag disabled it returns the echoed last key because no   *)
(* candidate resolved, and listAll fails with the list-miss error exactly  *)
(* when with the flag disabled it returns the empty sequence; in every     *)
(* other case the two modes end the same way, and with the flag disabled   *)
(* neither operation fails with a miss error.  The last key of an empty    *)
(* list of candidates is what the list holds at its last position,         *)
(* undefined.                                                              *)

\* the instance with throw-on-failure set as given, all else the same
Mode(flag) == [Self EXCEPT !.options.throwOnFailure = Bool(flag)]

TranslateIn(flag) == translate(Mode(flag), last.keys, last.scope).out
ListIn(flag) == list(Mode(flag), last.keys[1], last.scope).out

LastKey(keys) == IF Len(keys) = 0 THEN Undefined ELSE Str(keys[Len(keys)])

\* no candidate resolved: the strict lookup of each is the candidate itself
NoCandidateResolved(keys) ==
  \A i \in 1..Len(keys) : Strict(keys[i]) = Return(Str(keys[i]))

MissErrors == {Throw(ErrRaw), Throw(ErrTranslate), Throw(ErrPluralFind),
               Throw(ErrPlural), Throw(ErrList)}

C11_TwoModes ==
  /\ last.op = "translate"
     => /\ last.out = TranslateIn(Flag)
        /\ TranslateIn(FALSE) \notin MissErrors
        /\ (TranslateIn(TRUE) = Throw(ErrTranslate))
             <=> (/\ Ready
                  /\ NoCandidateResolved(last.keys)
                  /\ TranslateIn(FALSE) = Return(LastKey(last.keys)))
        /\ TranslateIn(TRUE) # Throw(ErrTranslate)
             => TranslateIn(TRUE) = TranslateIn(FALSE)
  /\ last.op = "list"
     => /\ last.out = ListIn(Flag)
        /\ ListIn(FALSE) \notin MissErrors
        /\ (ListIn(TRUE) = Throw(ErrList))
             <=> ListIn(FALSE) = Return(Arr(<<>>))
        /\ ListIn(TRUE) # Throw(ErrList) => ListIn(TRUE) = ListIn(FALSE)

\* a translate that failed on a miss where the other mode echoes the last of
\* two candidates
C11_Witness ==
  /\ last.op = "translate"
  /\ Len(last.keys) = 2
  /\ Flag
  /\ last.out = Throw(ErrTranslate)
  /\ TranslateIn(FALSE) = Return(Str(last.keys[2]))

(* C12: once dictionaries are loaded, right after a successful assignment  *)
(* to the active or to the fallback locale the current dictionary is       *)
(* dictionaries[active] if that is loaded and dictionaries[fallback]       *)
(* otherwise, and with an active locale configured the next translate      *)
(* resolves its key against that dictionary.                               *)

\* dictionaries[active] if loaded, else dictionaries[fallback]
Derived == Coalesce(ActiveDictionary, FallbackDictionary)

LocaleAssigned == last.op \in {"setLocale", "setDefaultLocale"}

C12_LocaleAssignmentRederives ==
  (/\ LocaleAssigned
   /\ last.out.k = "return"
   /\ dictionaries.t # "undefined")
  => /\ dictionary = Derived
     /\ options.currentLocale.t # "undefined"
        => \A key \in LifeKeys :
             translate(Self, <<key>>, NoScope).out
               = translateFrom([Self EXCEPT !.dictionary = Derived], <<key>>, 1)

\* the active locale was assigned a locale that is not loaded: the current
\* dictionary is the one of the fallback locale
C12_Witness ==
  /\ last.op = "setLocale"
  /\ last.arg = Str(xx)
  /\ last.out.k = "return"
  /\ dictionaries.t # "undefined"
  /\ options.defaultLocale = Str(en)
  /\ dictionary = enA

(* C14: an assignment to the active or to the fallback locale made after   *)
(* dictionaries are loaded loads nothing: the loaded dictionaries, their   *)
(* contents and the known-language list are what they were, whether the    *)
(* assignment succeeds or fails.                                           *)

C14_LocaleAssignmentLoadsNothing ==
  [][(/\ last'.op \in {"setLocale", "setDefaultLocale"}
      /\ dictionaries.t # "undefined")
     => (dictionaries' = dictionaries /\ languages' = languages)]_vars

\* an assignment failed after the directory was rewritten: the dictionaries
\* are still the ones loaded before
C14_Witness ==
  /\ LocaleAssigned
  /\ last.out = Throw(ErrNoDictionary)
  /\ fs = Rewritten
  /\ dictionaries = Obj(MapOf(<< <<en, enA>>, <<ru, ruA>>, <<de, deA>> >>))
  /\ languages = <<en, ru, de>>

(* C13: after a successful assignment to the locales path, the next raw or *)
(* translate resolves its key against the dictionary of the active (else   *)
(* fallback) locale as loaded from the new source: it ends as it would if  *)
(* the current dictionary were resolved anew from the loaded dictionaries. *)

\* the instance with its current dictionary still to be resolved
Fresh == [Self EXCEPT !.dictionary = Undefined]

C13_ReadsFollowNewSource ==
  [][(/\ last.op = "setLocalesPath"
      /\ last.out.k = "return"
      /\ last'.op \in {"raw", "translate"})
     => last'.out = IF last'.op = "raw" THEN raw(Fresh, last'.keys[1]).out
                    ELSE translate(Fresh, last'.keys, last'.scope).out]_vars

(* C15: after any sequence of loads and reloads the known-language list    *)
(* contains every key of the loaded dictionaries and no identifier twice;  *)
(* a step only appends to it, the identifiers new to it in the order of    *)
(* the scan, so that it never loses an identifier.                         *)

Known == {languages[i] : i \in 1..Len(languages)}

NoDuplicate(q) == \A i, j \in 1..Len(q) : q[i] = q[j] => i = j

IsPrefix(q, r) == Len(q) <= Len(r) /\ SubSeq(r, 1, Len(q)) = q

\* the stems of the accepted files of the configured directory, as scanned
ScanStems ==
  LET files == SelectSeq(fs[options.localesPath.s], LAMBDA f : accepted(Self, f.name))
  IN  [i \in 1..Len(files) |-> Split(files[i].name)[1]]

FirstAt(q, x) == Min({i \in 1..Len(q) : q[i] = x})

C15_LanguagesAppendOnly ==
  /\ [](/\ NoDuplicate(languages)
        /\ dictionaries.t # "undefined" => DOMAIN dictionaries.f \subseteq Known)
  /\ [][/\ IsPrefix(languages, languages')
        /\ \A i, j \in (Len(languages) + 1)..Len(languages') :
             i < j => FirstAt(ScanStems', languages'[i])
                        < FirstAt(ScanStems', languages'[j])]_vars

\* a reload from a directory that lost en and de and gained fr
C15_Witness ==
  /\ last.op = "setLocalesPath"
  /\ last.out.k = "return"
  /\ languages = <<en, ru, de, fr>>
  /\ DOMAIN dictionaries.f = {ru, fr}

(* C18: a load whose scan, after the extension filter, yields no           *)
(* dictionary fails with the empty-result error, and the store is never    *)
(* left loaded with an empty set of dictionaries.                          *)

ScanIsEmpty ==
  /\ options.localesPath.t # "undefined"
  /\ options.localesPath.s \in DOMAIN fs
  /\ ScanStems = <<>>

C18_ZeroDictionariesFail ==
  /\ (last.op = "setLocalesPath" /\ ScanIsEmpty) => last.out = Throw(ErrZero)
  /\ dictionaries # Obj(<<>>)

(* C16: a read operation (raw, translate, pluralize, listAll) called again *)
(* with the same arguments and no change of configuration in between ends  *)
(* as it ended the first time, and once dictionaries are loaded no read    *)
(* loads them again: it leaves the loaded dictionaries and the known       *)
(* languages as they are, whatever the directory holds by then.            *)

Reads == {"raw", "translate", "plural", "list"}

\* the call recorded in `last`, made once more
LastAgain ==
  CASE last.op = "raw" -> raw(Self, last.keys[1])
    [] last.op = "translate" -> translate(Self, last.keys, last.scope)
    [] last.op = "plural" -> plural(Self, last.count, last.keys[1], last.scope)
    [] last.op = "list" -> list(Self, last.keys[1], last.scope)

LoadsNothing(r) ==
  r.st.dictionaries = dictionaries /\ r.st.languages = languages

C16_ReadsIdempotent ==
  /\ last.op \in Reads => LastAgain.out = last.out
  /\ dictionaries.t # "undefined"
     => \A key \in ReadKeys :
          /\ LoadsNothing(raw(Self, key))
          /\ LoadsNothing(translate(Self, <<key>>, ScopeV))
          /\ LoadsNothing(plural(Self, 1, key, ScopeV))
          /\ LoadsNothing(list(Self, key, ScopeV))

\* a read made after the directory was rewritten answers from the
\* dictionaries loaded before
C16_Witness ==
  /\ last.op = "translate"
  /\ last.out = Return(Str(<<"A", "{", "{", "v", "}", "}">>))
  /\ fs = Rewritten
  /\ DOMAIN dictionaries.f = {en, ru, de}

(* C17: translate on a key, flat or dotted, that resolves to a value that  *)
(* is not a string fails with the non-string-result error in both modes of *)
(* throw-on-failure, also when the key is a candidate of a list that is    *)
(* reached because the candidates before it are absent; a key that is      *)
(* absent is a miss (the echoed key, or the translate-miss failure with    *)
(* the flag enabled) and not this error.                                   *)

NonStringAt(key) == ValueAt(dictionary, key).t \notin {"string", "undefined"}

Absent(key) == ValueAt(dictionary, key).t = "undefined"

C17_NonStringIsNotAMiss ==
  (last.op = "translate" /\ Ready)
  => /\ (\E i \in 1..Len(last.keys) :
           /\ NonStringAt(last.keys[i])
           /\ \A j \in 1..(i - 1) : Absent(last.keys[j]))
        => last.out = Throw(ErrNonString)
     /\ (Len(last.keys) = 1 /\ Absent(last.keys[1]))
        => last.out = IF Flag THEN Throw(ErrTranslate)
                      ELSE Return(Str(last.keys[1]))

(* C19: raw and translate called with a locales path configured and no     *)
(* active locale configured fail with the no-current-locale error,         *)
(* whatever the fallback locale is (unset, loaded or not loaded), on the   *)
(* first call and on later ones.                                           *)

C19_NoCurrentLocale ==
  (/\ last.op \in {"raw", "translate"}
   /\ options.localesPath.t # "undefined"
   /\ options.currentLocale.t = "undefined")
  => last.out = Throw(ErrNoLocale)

(* C20: the constructor given a delimiter pair that is not two distinct    *)
(* non-empty strings (another length, twice the same marker, an empty      *)
(* marker) fails with the invalid-delimiters error.                        *)

WellFormed(pair) ==
  /\ Len(pair.a) = 2
  /\ pair.a[1].s # <<>>
  /\ pair.a[2].s # <<>>
  /\ pair.a[1].s # pair.a[2].s

C20_MalformedDelimitersRejected ==
  (/\ last.op = "new"
   /\ options.tags.t # "undefined"
   /\ ~WellFormed(options.tags))
  => last.out = Throw(ErrTags)

(* C21: an assignment to the active locale made before any load loads     *)
(* nothing and resolves nothing; the first locale-dependent read after it  *)
(* loads all dictionaries and then resolves the current dictionary for the *)
(* assigned locale, so that nothing is resolved when the load fails; the   *)
(* current dictionary becomes resolved only by such a read or by a locale  *)
(* assignment made after the load, never by listAll.                       *)

LocaleReads == {"raw", "translate", "plural"}

\* what the directory of the configured path holds, as loadDictionaries
\* leaves it in this.dictionaries
Loaded == loadDictionaries([Self EXCEPT !.languages = <<>>]).st.dictionaries

C21_LazyLoadThenResolve ==
  /\ [](dictionary.t # "undefined" => dictionaries.t # "undefined")
  /\ [][/\ (last'.op = "setLocale" /\ dictionaries.t = "undefined")
           => /\ last'.out = Return(Undefined)
              /\ options'.currentLocale = last'.arg
              /\ UNCHANGED <<dictionaries, dictionary, languages>>
        /\ (last'.op \in LocaleReads /\ dictionaries.t = "undefined")
           => /\ dictionaries' = Loaded
              /\ dictionary' =
                   IF dictionaries'.t = "undefined" THEN Undefined
                   ELSE Coalesce(Get(dictionaries', ToKey(options.currentLocale)),
                                 Get(dictionaries', ToKey(options.defaultLocale)))
        /\ (dictionary.t = "undefined" /\ dictionary'.t # "undefined")
           => \/ last'.op \in LocaleReads
              \/ last'.op \in {"setLocale", "setDefaultLocale"}
                   /\ dictionaries.t # "undefined"
        /\ last'.op = "list" => dictionary' = dictionary]_vars

\* the locale was assigned before the load and a read then loaded and
\* resolved for it
C21_Witness ==
  /\ last.op = "translate"
  /\ last.out = Return(Str(<<"R">>))
  /\ options.currentLocale = Str(ru)
  /\ dictionary = ruA
  /\ DOMAIN dictionaries.f = {en, ru, de}

(* C22: after a reload whose scan no longer holds a language the list      *)
(* still knows, listAll(key) completes and gives no element for that       *)
(* language: its elements are the rendered values of key in the loaded     *)
(* dictionaries of the known languages, in order, whether or not a current *)
(* dictionary is resolved.                                                 *)

\* a known language has no loaded dictionary
SomeLanguageGone ==
  /\ dictionaries.t # "undefined"
  /\ \E i \in 1..Len(languages) : DictionaryOf(languages[i]).t = "undefined"

C22_ListAfterShrinkingReload ==
  (last.op = "list" /\ SomeLanguageGone /\ ~Flag)
  => last.out = Return(Arr(RenderedFrom(1, TRUE)))

(* C23: an assignment to the active or to the fallback locale that fails   *)
(* with the locale-not-found error leaves the options, and so the value    *)
(* the getter reports, and the current dictionary as they were.            *)

C23_FailedAssignmentChangesNothing ==
  [][(/\ last'.op \in {"setLocale", "setDefaultLocale"}
      /\ last'.out = Throw(ErrNoDictionary))
     => (options' = options /\ dictionary' = dictionary)]_vars

(* C24: listAll(key) skips a language in whose dictionary the flat key     *)
(* resolves to a value that is not a string: the call does not fail and    *)
(* returns the rendered values of the languages that define key as a       *)
(* string.                                                                 *)

SomeLanguageNonString ==
  \E i \in 1..Len(languages) :
    ValueAt(DictionaryOf(languages[i]), last.keys[1]).t
      \notin {"string", "undefined"}

C24_ListSkipsNonString ==
  (/\ last.op = "list"
   /\ dictionaries.t # "undefined"
   /\ ~Flag
   /\ ~IncludesDot(last.keys[1])
   /\ \A i \in 1..Len(languages) : DictionaryOf(languages[i]).t # "undefined"
   /\ SomeLanguageNonString)
  => last.out = Return(Arr(RenderedFrom(1, TRUE)))

====
